---------------------------- MODULE Spec2Model ----------------------------
(***************************************************************************)
(* A model of the chatbot's conversation orchestrator (agent.py) and of    *)
(* its two transport adapters (routers/chat.py): the persistent websocket  *)
(* handler `chat` and the single-shot SSE generator `stream.handle_chat`.  *)
(*                                                                         *)
(* One handler step of the model is one step of the LangGraph graph        *)
(* (input_guard, chatbot, tools) together with the handler's translation   *)
(* of every raw event that step delivers, or one step of the handler's own *)
(* prologue / epilogue.  The two handlers interleave at these steps.       *)
(* What a step receives and sends (received, out, calls, verdict) is kept  *)
(* for that step only: the next step of the handler starts them afresh.    *)
(***************************************************************************)
EXTENDS Integers, Sequences, FiniteSets, TLC

\* ------------------------------------------------------------------ bounds
\* Inbound messages over all transports.
MaxMsgs == 2
\* Token chunks one model run may stream.
MaxChunks == 2
\* Graph steps one astream_events() call may run: the graph library's
\* recursion_limit, which neither compile() nor the config of the call sets.
\* The library's default is 25; the model runs with a small one.
RecursionLimit == 4
\* `context_length` the agent is built with.
ContextLength == 5
\* Longest sequence handed to the trimmer in SpecTrim.
MaxTrimLen == 3
\* Longest raw title handed to the stripping in SpecTitle.
MaxTitleLen == 4

\* ------------------------------------------------------- program constants
\* max_tokens of the summarization window.
SummaryMaxTokens == 20

Handlers == {"ws", "sse"}
\* The requester of every request (the user id header), and the owners.
Users == {"u1", "u2"}
userid == "u1"
ModelNames == {"m1"}
\* c0 names no stored conversation: session.get returns None for it.
ConvIds == {"c1", "c2"}
RequestedConvs == {"c0", "c1", "c2"}
HazardCategories == {"S1"}
None == "None"

\* Python dicts are sets of <<key, value>> pairs with distinct keys.
DictKeys(d) == {p[1] : p \in d}
DictGet(d, k) == IF k \in DictKeys(d) THEN (CHOOSE p \in d : p[1] = k)[2] ELSE None
\* d | e
DictMerge(d, e) == {p \in d : p[1] \notin DictKeys(e)} \cup e

\* An exception, by type and by the place that raises it.
Exc(type, at) == [type |-> type, at |-> at]
NoExc == Exc("none", "none")

\* ---------------------------------------------------------------- messages
\* A transcript message.  `tokens` is what the exact counter charges for it.
Msg(id, type, content, kwargs, tool_calls, tokens) ==
    [id |-> id, type |-> type, content |-> content, additional_kwargs |-> kwargs,
     tool_calls |-> tool_calls, tokens |-> tokens]

\* Message contents are sequences of strings.
HumanMessage(id, content) == Msg(id, "human", content, {}, 0, 1)
AIMessage(id, content, tool_calls) == Msg(id, "ai", content, {}, tool_calls, 2)
ToolMessage(id) == Msg(id, "tool", <<"result">>, {}, 0, 1)
\* The hint of chatbot(): a SystemMessage naming the hazard category.
SystemMessage(content) == Msg(0, "system", content, {}, 0, 1)
IsHint(m) == m.type = "system"

RECURSIVE ReplaceById(_, _)
ReplaceById(left, m) ==
    IF left = <<>> THEN <<>>
    ELSE <<IF Head(left).id = m.id THEN m ELSE Head(left)>> \o ReplaceById(Tail(left), m)

\* The add_messages reducer of MessagesState: a message whose id is already in
\* the state replaces that one, any other is appended.
RECURSIVE AddMessages(_, _)
AddMessages(left, right) ==
    IF right = <<>> THEN left
    ELSE LET m == Head(right)
             merged == IF \E i \in 1..Len(left) : left[i].id = m.id
                       THEN ReplaceById(left, m)
                       ELSE Append(left, m)
         IN AddMessages(merged, Tail(right))

\* ----------------------------------------------------------------- trimmer
RECURSIVE SumTokens(_)
SumTokens(msgs) == IF msgs = <<>> THEN 0 ELSE Head(msgs).tokens + SumTokens(Tail(msgs))

\* The two costing strategies: get_num_tokens_from_messages, or len.
Cost(counter, msgs) == IF counter = "len" THEN Len(msgs) ELSE SumTokens(msgs)

LastK(msgs, k) == SubSeq(msgs, Len(msgs) - k + 1, Len(msgs))

\* trim_messages(strategy="last"): the longest suffix whose cost is within
\* max_tokens, then shortened from its old end until it starts on `start_on`.
RECURSIVE StartOn(_, _, _)
StartOn(msgs, k, start_on) ==
    IF k > 0 /\ start_on # None /\ msgs[Len(msgs) - k + 1].type # start_on
    THEN StartOn(msgs, k - 1, start_on)
    ELSE k

TrimMessages(msgs, counter, max_tokens, start_on) ==
    LET fits == {k \in 1..Len(msgs) : Cost(counter, LastK(msgs, k)) <= max_tokens}
        idx == IF fits = {} THEN 0 ELSE CHOOSE k \in fits : \A j \in fits : j <= k
    IN LastK(msgs, StartOn(msgs, idx, start_on))

\* -------------------------------------------------------------- raw events
\* A raw event of astream_events(version="v2").  Names are sequences of
\* characters, so that startswith("_") is computed.
Event(name, tags, evt, run_id, chunk, output) ==
    [name |-> name, tags |-> tags, event |-> evt, run_id |-> run_id,
     chunk |-> chunk, output |-> output]

\* The final message of a model run, as on_chat_model_end carries it:
\* usage_metadata is {} for None.
Output(usage_metadata, response_metadata, tool_calls) ==
    [usage_metadata |-> usage_metadata, response_metadata |-> response_metadata,
     tool_calls |-> tool_calls]
NoOutput == Output({}, {}, 0)

ChunkTexts == <<"t1", "t2", "t3", "t4">>

\* The events of one chat-model run: start, the chunks in order, end.
ModelRunEvents(name, tags, run_id, nchunks, output) ==
    <<Event(name, tags, "on_chat_model_start", run_id, "", NoOutput)>>
    \o [k \in 1..nchunks |->
          Event(name, tags, "on_chat_model_stream", run_id, ChunkTexts[k], NoOutput)]
    \o <<Event(name, tags, "on_chat_model_end", run_id, "", output)>>

\* A run that fails mid-stream: no end event follows its chunks.
BrokenRunEvents(name, tags, run_id, nchunks) ==
    <<Event(name, tags, "on_chat_model_start", run_id, "", NoOutput)>>
    \o [k \in 1..nchunks |->
          Event(name, tags, "on_chat_model_stream", run_id, ChunkTexts[k], NoOutput)]

\* What LangGraph reports around a node: the node's chain run, and the hidden
\* channel write that ends it.
NodeStartEvent(node) == Event(<<node>>, {"graph:step"}, "on_chain_start", 0, "", NoOutput)
NodeWriteEvent == Event(<<"_", "write">>, {"langsmith:hidden"}, "on_chain_end", 0, "", NoOutput)
ToolEvents(call) ==
    <<Event(<<"search">>, {}, "on_tool_start", 0, "", NoOutput),
      Event(<<"search">>, {}, "on_tool_end", 0, "", NoOutput)>>

ChatModelName == <<"C", "h", "a", "t", "M", "o", "d", "e", "l">>
\* How chatbot.safety may name and tag the classifier's model run.
ClassifierRunShapes ==
    { [name |-> <<"s", "a", "f", "e", "t", "y">>, tags |-> {}],
      [name |-> <<"s", "a", "f", "e", "t", "y">>, tags |-> {"internal"}],
      [name |-> <<"_", "s", "a", "f", "e", "t", "y">>, tags |-> {}] }

\* --------------------------------------------------------- outbound frames
Frame(kind, parent_id, id, conversation, content) ==
    [kind |-> kind, parent_id |-> parent_id, id |-> id,
     conversation |-> conversation, content |-> content]

StartsWithUnderscore(name) == Len(name) > 0 /\ name[1] = "_"

\* A faulty chat() loop body whose stream branch sends its frame twice.
WsFramesChunkTwice(message, event) ==
    IF StartsWithUnderscore(event.name) THEN <<>>
    ELSE IF "internal" \in event.tags THEN <<>>
    ELSE IF event.event = "on_chat_model_start"
    THEN <<Frame("start", message.id, event.run_id, message.conversation, <<>>)>>
    ELSE IF event.event = "on_chat_model_stream"
    THEN LET f == Frame("chunk", message.id, event.run_id, message.conversation,
                        <<event.chunk>>)
         IN <<f, f>>
    ELSE IF event.event = "on_chat_model_end"
    THEN <<Frame("end", message.id, event.run_id, message.conversation, <<>>)>>
    ELSE <<>>

\* chat(): the frames sent for one raw event.
WsFrames(message, event) ==
    IF StartsWithUnderscore(event.name) THEN <<>>
    ELSE IF "internal" \in event.tags THEN <<>>
    ELSE (IF event.event = "on_chat_model_start"
          THEN <<Frame("start", message.id, event.run_id, message.conversation, <<>>)>>
          ELSE <<>>)
      \o (IF event.event = "on_chat_model_stream"
          THEN <<Frame("chunk", message.id, event.run_id, message.conversation,
                       <<event.chunk>>)>>
          ELSE <<>>)
      \o (IF event.event = "on_chat_model_end"
          THEN <<Frame("end", message.id, event.run_id, message.conversation, <<>>)>>
          ELSE <<>>)

\* A faulty handle_chat() loop body without the "internal" tag check.
SseFramesKeepsInternal(message, event) ==
    IF StartsWithUnderscore(event.name) THEN <<>>
    ELSE (IF event.event = "on_chat_model_start"
          THEN <<Frame("start", message.id, event.run_id, None, <<>>)>>
          ELSE <<>>)
      \o (IF event.event = "on_chat_model_stream"
          THEN <<Frame("chunk", message.id, event.run_id, None, <<event.chunk>>)>>
          ELSE <<>>)
      \o (IF event.event = "on_chat_model_end"
          THEN <<Frame("end", message.id, event.run_id, None, <<>>)>>
          ELSE <<>>)

\* stream.handle_chat(): the frames yielded for one raw event.
SseFrames(message, event) ==
    IF StartsWithUnderscore(event.name) THEN <<>>
    ELSE IF "internal" \in event.tags THEN <<>>
    ELSE (IF event.event = "on_chat_model_start"
          THEN <<Frame("start", message.id, event.run_id, None, <<>>)>>
          ELSE <<>>)
      \o (IF event.event = "on_chat_model_stream"
          THEN <<Frame("chunk", message.id, event.run_id, None, <<event.chunk>>)>>
          ELSE <<>>)
      \o (IF event.event = "on_chat_model_end"
          THEN <<Frame("end", message.id, event.run_id, None, <<>>)>>
          ELSE <<>>)

\* Whether the handler reaches the usage block for this event at all.
Metered(event) ==
    /\ ~StartsWithUnderscore(event.name)
    /\ "internal" \notin event.tags
    /\ event.event = "on_chat_model_end"
    /\ event.output.usage_metadata # {}

\* The usage block: response_metadata["model_name"] raises KeyError when the
\* key is missing, before either counter moves.
UsageRaises(event) ==
    Metered(event) /\ "model_name" \notin DictKeys(event.output.response_metadata)

IncCounter(counter, user, event, key) ==
    IF Metered(event) /\ ~UsageRaises(event)
    THEN LET label == <<user, DictGet(event.output.response_metadata, "model_name")>>
         IN [counter EXCEPT ![label] = @ + DictGet(event.output.usage_metadata, key)]
    ELSE counter

\* handle_chat(): its own copy of the usage block.
SseMetered(event) ==
    /\ ~StartsWithUnderscore(event.name)
    /\ "internal" \notin event.tags
    /\ event.event = "on_chat_model_end"
    /\ event.output.usage_metadata # {}

SseUsageRaises(event) ==
    SseMetered(event) /\ "model_name" \notin DictKeys(event.output.response_metadata)

\* A faulty usage block that adds the input tokens to both counters.
SseIncCounterInputOnly(counter, user, event, key) ==
    IF SseMetered(event) /\ ~SseUsageRaises(event)
    THEN LET label == <<user, DictGet(event.output.response_metadata, "model_name")>>
         IN [counter EXCEPT ![label] =
                @ + DictGet(event.output.usage_metadata, "input_tokens")]
    ELSE counter

SseIncCounter(counter, user, event, key) ==
    IF SseMetered(event) /\ ~SseUsageRaises(event)
    THEN LET label == <<user, DictGet(event.output.response_metadata, "model_name")>>
         IN [counter EXCEPT ![label] = @ + DictGet(event.output.usage_metadata, key)]
    ELSE counter

\* ------------------------------------------------------------------ titles
Quote == "\""
NullTitle == <<"<null>">>
\* What the summarization chain may return.
TitleRaws ==
    { <<"H">>, <<Quote, "H", Quote>>, <<Quote, Quote, "H", Quote, Quote>>,
      <<Quote, "H">>, <<"H", Quote, "W">> }

RECURSIVE LStrip(_, _)
LStrip(s, ch) == IF s # <<>> /\ Head(s) = ch THEN LStrip(Tail(s), ch) ELSE s
RECURSIVE RStrip(_, _)
RStrip(s, ch) ==
    IF s # <<>> /\ s[Len(s)] = ch THEN RStrip(SubSeq(s, 1, Len(s) - 1), ch) ELSE s
\* str.strip(chars): every leading and every trailing occurrence goes.
Strip(s, ch) == RStrip(LStrip(s, ch), ch)

\* ------------------------------------------------------------------- state
VARIABLES
    \* create_agent(): what the graph was built with
    hazard_classifier,   \* whether a safety model was given
    tool_node,           \* whether tools were given
    token_counter,       \* "exact" (the model's counter) or "len"
    max_input_tokens,    \* the generation budget
    \* shared by every request
    convs,               \* the stored Conversation rows
    checkpoint,          \* thread_id -> the checkpointed messages
    input_tokens,        \* usage counters, by <<user_id, model_name>>
    output_tokens,
    clock,               \* utcnow()
    agent_checkpointer,  \* agent.checkpointer: 0 the application's, n the saver of request n
    open_savers,         \* the request savers whose connection is open
    nmsgs,               \* inbound messages so far
    \* per handler
    pc,                  \* where the handler stands
    message,             \* the inbound ChatMessage being served
    conv,                \* the handler's local Conversation object
    state,               \* the graph's in-memory MessagesState of the turn
    cp,                  \* the checkpointer the running graph holds
    out,                 \* frames the handler's latest step sent, in order
    received,            \* raw events the latest step was delivered, in order
    caught,              \* the exception the handler's except clause caught
    runs,                \* model runs started in this turn (run ids)
    rounds,              \* tool rounds of this turn
    calls,               \* the windows the latest step invoked the chat model with
    verdict,             \* what the classifier returned to the latest step
    \* the trimmer applied to drawn inputs (SpecTrim)
    tS, tOut, tCall

cfgvars == <<hazard_classifier, tool_node, token_counter, max_input_tokens>>
shared == <<convs, checkpoint, input_tokens, output_tokens, clock,
            agent_checkpointer, open_savers, nmsgs>>
local == <<pc, message, conv, state, cp, out, received, caught, runs, rounds,
           calls, verdict>>
trimvars == <<tS, tOut, tCall>>
vars == <<cfgvars, shared, local, trimvars>>

NoMessage == [id |-> 0, conversation |-> None, content |-> <<>>,
              require_summarization |-> FALSE]
NoConv == [id |-> None, owner |-> None, last_message_at |-> 0, title |-> NullTitle]
NoVerdict == [flag |-> None, category |-> None]

\* max_input_tokens of create_agent(): context_length - chat_model.max_tokens,
\* or int(context_length * 0.8) when the model has no such attribute (-1 here).
MaxInputTokens(context_length, model_max_tokens) ==
    IF model_max_tokens >= 0
    THEN context_length - model_max_tokens
    ELSE (context_length * 8) \div 10

IdlePc(h) == IF h = "ws" THEN "recv" ELSE "idle"

InitProgram ==
    /\ convs = [c \in ConvIds |->
                  [id |-> c, owner |-> IF c = "c1" THEN "u1" ELSE "u2",
                   last_message_at |-> 0, title |-> NullTitle]]
    /\ checkpoint = [c \in ConvIds |-> <<>>]
    /\ input_tokens = [l \in Users \X ModelNames |-> 0]
    /\ output_tokens = [l \in Users \X ModelNames |-> 0]
    /\ clock = 0
    /\ agent_checkpointer = 0
    /\ open_savers = {}
    /\ nmsgs = 0
    /\ pc = [h \in Handlers |-> IdlePc(h)]
    /\ message = [h \in Handlers |-> NoMessage]
    /\ conv = [h \in Handlers |-> NoConv]
    /\ state = [h \in Handlers |-> <<>>]
    /\ cp = [h \in Handlers |-> 0]
    /\ out = [h \in Handlers |-> <<>>]
    /\ received = [h \in Handlers |-> <<>>]
    /\ caught = [h \in Handlers |-> NoExc]
    /\ runs = [h \in Handlers |-> 0]
    /\ rounds = [h \in Handlers |-> 0]
    /\ calls = [h \in Handlers |-> <<>>]
    /\ verdict = [h \in Handlers |-> NoVerdict]

\* The deployments checked: a model with its own token counter, a safety
\* model and tools; and a bare model, whose messages are counted with len.
Deployments ==
    { [hazard_classifier |-> TRUE, tool_node |-> TRUE, token_counter |-> "exact"],
      [hazard_classifier |-> FALSE, tool_node |-> FALSE, token_counter |-> "len"] }

Init ==
    /\ \E d \in Deployments :
          /\ hazard_classifier = d.hazard_classifier
          /\ tool_node = d.tool_node
          /\ token_counter = d.token_counter
    /\ max_input_tokens = MaxInputTokens(ContextLength, -1)
    /\ InitProgram
    /\ tS = <<>> /\ tOut = <<>> /\ tCall = "none"

\* ------------------------------------------------------- handler machinery
\* The values a handler step may change, as one record; the step starts with
\* nothing received and nothing sent.
Cur(h) ==
    [pc |-> pc[h], message |-> message[h], conv |-> conv[h], state |-> state[h],
     cp |-> cp[h], out |-> <<>>, received |-> <<>>, caught |-> caught[h],
     runs |-> runs[h], rounds |-> rounds[h], calls |-> <<>>,
     verdict |-> NoVerdict,
     convs |-> convs, checkpoint |-> checkpoint, input_tokens |-> input_tokens,
     output_tokens |-> output_tokens, clock |-> clock,
     agent_checkpointer |-> agent_checkpointer, open_savers |-> open_savers,
     nmsgs |-> nmsgs]

Apply(h, r) ==
    /\ pc' = [pc EXCEPT ![h] = r.pc]
    /\ message' = [message EXCEPT ![h] = r.message]
    /\ conv' = [conv EXCEPT ![h] = r.conv]
    /\ state' = [state EXCEPT ![h] = r.state]
    /\ cp' = [cp EXCEPT ![h] = r.cp]
    /\ out' = [out EXCEPT ![h] = r.out]
    /\ received' = [received EXCEPT ![h] = r.received]
    /\ caught' = [caught EXCEPT ![h] = r.caught]
    /\ runs' = [runs EXCEPT ![h] = r.runs]
    /\ rounds' = [rounds EXCEPT ![h] = r.rounds]
    /\ calls' = [calls EXCEPT ![h] = r.calls]
    /\ verdict' = [verdict EXCEPT ![h] = r.verdict]
    /\ convs' = r.convs
    /\ checkpoint' = r.checkpoint
    /\ input_tokens' = r.input_tokens
    /\ output_tokens' = r.output_tokens
    /\ clock' = r.clock
    /\ agent_checkpointer' = r.agent_checkpointer
    /\ open_savers' = r.open_savers
    /\ nmsgs' = r.nmsgs
    /\ UNCHANGED <<cfgvars, trimvars>>

\* str(e), as the single-shot stream yields it.
ErrorFrame(e) == Frame("error", 0, 0, None, <<e.type>>)

\* A faulty chat() whose `except Exception` leaves the receive loop.
WsExceptCloses(r, e) == [r EXCEPT !.caught = e, !.pc = "closed"]

\* chat(): `except Exception` logs and the loop goes on to the next receive.
WsExcept(r, e) == [r EXCEPT !.caught = e, !.pc = "recv"]

\* handle_chat(): leaving `async with` closes the request's saver, then
\* `except Exception` yields str(e) and the generator ends.
SseExcept(r, e) ==
    [r EXCEPT !.caught = e, !.pc = "done", !.out = Append(r.out, ErrorFrame(e)),
              !.open_savers = r.open_savers \ {r.cp}]

Except(h, r, e) == IF h = "ws" THEN WsExcept(r, e) ELSE SseExcept(r, e)

\* A checkpointer can be read and written while its connection is open; the
\* application's own (0) always is.
Usable(c, savers) == c = 0 \/ c \in savers

\* One raw event through the handler's loop body: its frames, then the usage
\* block.  The loop stops at the first exception.
RECURSIVE Consume(_, _, _)
Consume(h, evs, r) ==
    IF evs = <<>> \/ r.caught # NoExc THEN r
    ELSE LET e == Head(evs)
             frames == IF h = "ws" THEN WsFrames(r.message, e) ELSE SseFrames(r.message, e)
         IN Consume(h, Tail(evs),
                [r EXCEPT !.out = r.out \o frames,
                          !.received = Append(r.received, e),
                          !.input_tokens =
                              IF h = "ws"
                              THEN IncCounter(r.input_tokens, userid, e, "input_tokens")
                              ELSE SseIncCounter(r.input_tokens, userid, e, "input_tokens"),
                          !.output_tokens =
                              IF h = "ws"
                              THEN IncCounter(r.output_tokens, userid, e, "output_tokens")
                              ELSE SseIncCounter(r.output_tokens, userid, e, "output_tokens"),
                          !.caught =
                              IF (IF h = "ws" THEN UsageRaises(e) ELSE SseUsageRaises(e))
                              THEN Exc("KeyError", "model_name")
                              ELSE NoExc])

\* The per-message reset: what a new inbound message starts from.
Fresh(r, m) ==
    [r EXCEPT !.message = m, !.conv = NoConv, !.state = <<>>, !.cp = 0, !.out = <<>>,
              !.received = <<>>, !.caught = NoExc, !.runs = 0, !.rounds = 0,
              !.calls = <<>>, !.verdict = NoVerdict, !.nmsgs = r.nmsgs + 1]

\* astream_events() begins: the graph takes the agent's checkpointer, loads the
\* thread's checkpoint and appends the user message to it.
StartGraph(h, r) ==
    IF ~Usable(r.agent_checkpointer, r.open_savers)
    THEN Except(h, [r EXCEPT !.cp = r.agent_checkpointer],
                Exc("OperationalError", "checkpointer"))
    ELSE LET thread == r.message.conversation
             loaded == r.checkpoint[thread]
             input == HumanMessage(Len(loaded) + 1, r.message.content)
             st == AddMessages(loaded, <<input>>)
         IN [r EXCEPT !.cp = r.agent_checkpointer, !.state = st,
                      !.checkpoint = [r.checkpoint EXCEPT ![thread] = st],
                      !.pc = "input_guard"]

\* The inbound ChatMessage.  Its additional_kwargs are drawn where the handler
\* reads them, after the stream (lines 125, 243): nothing looks at them before.
InboundMessage(id, c) ==
    [id |-> id, conversation |-> c, content |-> <<"hi">>,
     require_summarization |-> FALSE]

\* A faulty chat() without the owner check of lines 53-56.
WsReceiveStepNoOwnerCheck(r, valid, c) ==
    LET m == InboundMessage(r.nmsgs + 1, c)
        r0 == Fresh(r, IF valid THEN m ELSE NoMessage)
    IN IF ~valid THEN WsExcept(r0, Exc("ValidationError", "payload"))
       ELSE IF c \notin ConvIds THEN WsExcept(r0, Exc("AttributeError", "conv.owner"))
       ELSE StartGraph("ws", [r0 EXCEPT !.conv = r0.convs[c]])

\* chat() lines 47-69: receive, validate, load the conversation, authorize,
\* start the graph.
WsReceiveStep(r, valid, c) ==
    LET m == InboundMessage(r.nmsgs + 1, c)
        r0 == Fresh(r, IF valid THEN m ELSE NoMessage)
    IN IF ~valid THEN WsExcept(r0, Exc("ValidationError", "payload"))
       ELSE IF c \notin ConvIds THEN WsExcept(r0, Exc("AttributeError", "conv.owner"))
       ELSE LET r1 == [r0 EXCEPT !.conv = r0.convs[c]]
            IN IF r1.conv.owner # userid
               THEN WsExcept(r1, Exc("WebSocketException", "3403"))
               ELSE StartGraph("ws", r1)

WsReceive ==
    /\ pc["ws"] = "recv"
    /\ nmsgs < MaxMsgs
    /\ \E valid \in BOOLEAN, c \in RequestedConvs :
          /\ (~valid => c = "c0")
          /\ Apply("ws", WsReceiveStep(Cur("ws"), valid, c))

\* chat() lines 156-159: receive_text raises WebSocketDisconnect.
WsDisconnect ==
    /\ pc["ws"] = "recv"
    /\ Apply("ws", [Cur("ws") EXCEPT !.pc = "closed"])

\* handle_chat() lines 173-196.  HTTPException takes status_code and detail:
\* the keywords `code` and `reason` make the raise itself a TypeError.
SseRequestStep(r, c) ==
    LET m == InboundMessage(r.nmsgs + 1, c)
        r0 == Fresh(r, m)
    IN IF c \notin ConvIds THEN SseExcept(r0, Exc("AttributeError", "conv.owner"))
       ELSE LET r1 == [r0 EXCEPT !.conv = r0.convs[c]]
            IN IF r1.conv.owner # userid
               THEN SseExcept(r1, Exc("TypeError", "HTTPException"))
               ELSE StartGraph("sse",
                        [r1 EXCEPT !.agent_checkpointer = m.id,
                                   !.open_savers = r1.open_savers \cup {m.id}])

SseRequest ==
    /\ pc["sse"] \in {"idle", "done"}
    /\ nmsgs < MaxMsgs
    /\ \E c \in RequestedConvs : Apply("sse", SseRequestStep(Cur("sse"), c))

\* --------------------------------------------------------------- the graph
Last(seq) == seq[Len(seq)]
Thread(r) == r.message.conversation
WriteCheckpoint(r, st) ==
    [r EXCEPT !.state = st, !.checkpoint = [r.checkpoint EXCEPT ![Thread(r)] = st]]

\* The number of the graph step a node runs as: input_guard is step 1, each
\* tool round adds a tools step and a chatbot step.
GraphStep(node, done_rounds) ==
    IF node = "input_guard" THEN 1
    ELSE IF node = "chatbot" THEN 2 + 2 * done_rounds
    ELSE 3 + 2 * done_rounds

\* A graph that never stops on its own.
OutOfStepsNever(step) == FALSE

\* The graph raises GraphRecursionError instead of running a step beyond the
\* limit.
OutOfSteps(step) == step > RecursionLimit

\* What the hazard classifier may return.
Verdicts ==
    { [flag |-> "safe", category |-> None], [flag |-> "safe", category |-> "S1"],
      [flag |-> "unsafe", category |-> None], [flag |-> "unsafe", category |-> "S1"] }

\* A faulty input_guard() that tags on any category, whatever the flag.
InputGuardReturnAnyFlag(messages, v) ==
    IF hazard_classifier /\ v.category # None
    THEN LET last_message == Last(messages)
         IN <<[last_message EXCEPT
                  !.additional_kwargs = DictMerge(@, {<<"hazard", v.category>>})]>>
    ELSE <<>>

\* input_guard(): the messages the node returns.
InputGuardReturn(messages, v) ==
    IF hazard_classifier /\ v.flag = "unsafe" /\ v.category # None
    THEN LET last_message == Last(messages)
         IN <<[last_message EXCEPT
                  !.additional_kwargs = DictMerge(@, {<<"hazard", v.category>>})]>>
    ELSE <<>>

InputGuardStep(h, r, v, shape) ==
    IF ~Usable(r.cp, r.open_savers)
    THEN Except(h, r, Exc("OperationalError", "checkpointer"))
    ELSE LET evs == IF hazard_classifier
                    THEN <<NodeStartEvent("input_guard")>>
                         \o ModelRunEvents(shape.name, shape.tags, r.runs + 1, 0, NoOutput)
                         \o <<NodeWriteEvent>>
                    ELSE <<NodeStartEvent("input_guard"), NodeWriteEvent>>
             r1 == Consume(h, evs,
                       [r EXCEPT !.runs = IF hazard_classifier THEN @ + 1 ELSE @,
                                 !.verdict = IF hazard_classifier THEN v ELSE NoVerdict])
             st == AddMessages(r.state, InputGuardReturn(r.state, v))
         IN [WriteCheckpoint(r1, st) EXCEPT !.pc = "chatbot"]

InputGuard(h) ==
    /\ pc[h] = "input_guard"
    /\ \E v \in Verdicts \cup {NoVerdict}, shape \in ClassifierRunShapes :
          /\ (hazard_classifier => v \in Verdicts)
          /\ (~hazard_classifier =>
                 v = NoVerdict /\ shape.name[1] = "_")
          /\ Apply(h, InputGuardStep(h, Cur(h), v, shape))

\* chatbot(): the hint, None (<<>>) unless the last message carries a hazard.
HintMessage(messages) ==
    LET hazard == DictGet(Last(messages).additional_kwargs, "hazard")
    IN IF hazard # None THEN <<SystemMessage(<<"hint", hazard>>)>> ELSE <<>>

\* A faulty chatbot() that adds a hint to every request.
AllMessagesAlwaysHint(messages) ==
    [exc |-> NoExc, value |-> Append(messages, SystemMessage(<<"hint", None>>))]

\* chatbot(): `state["messages"] + hint_message if hint_message else
\* state["messages"]`.  The sum of a list and a SystemMessage is a TypeError.
AllMessages(messages) ==
    IF HintMessage(messages) # <<>>
    THEN [exc |-> Exc("TypeError", "list + SystemMessage"), value |-> <<>>]
    ELSE [exc |-> NoExc, value |-> messages]

\* A faulty chatbot() that trims without start_on.
ChatbotWindowAnyStart(all_messages) ==
    TrimMessages(all_messages, token_counter, max_input_tokens, None)

\* chatbot(): the window of the generation request.
ChatbotWindow(all_messages) ==
    TrimMessages(all_messages, token_counter, max_input_tokens, "human")

\* chat() / handle_chat(): the window of the summarization request.
SummaryWindow(msgs) == TrimMessages(msgs, "len", SummaryMaxTokens, "human")

\* should_continue()
should_continue(messages) ==
    IF Last(messages).tool_calls > 0 THEN "tools" ELSE "__end__"

\* A faulty graph whose chatbot node is wired straight to the end.
AfterChatbotNeverLoops(messages) == "epilogue"

\* The graph's edge out of chatbot.
AfterChatbot(messages) ==
    IF tool_node
    THEN (IF should_continue(messages) = "tools" THEN "tools" ELSE "epilogue")
    ELSE "epilogue"

\* What a model run may report as usage, and with which response metadata.
UsageKinds == {"none", "full", "no_model_name"}
UsageMetadata(kind) ==
    IF kind = "none" THEN {} ELSE {<<"input_tokens", 3>>, <<"output_tokens", 5>>}
ResponseMetadata(kind) ==
    IF kind = "no_model_name" THEN {<<"finish_reason", "stop">>}
    ELSE {<<"finish_reason", "stop">>, <<"model_name", "m1">>}
ToolCallCounts == {0, 1, 2}

\* One pass through chatbot().  The model streams nch chunks and either fails
\* or ends with `usage` and `tc` tool calls; when the handler's loop body
\* raises, the graph is cancelled with the node's write done or not.
ChatbotStep(h, r, nch, usage, tc, fails, persisted) ==
    IF OutOfSteps(GraphStep("chatbot", r.rounds))
    THEN Except(h, r, Exc("GraphRecursionError", "recursion_limit"))
    ELSE IF ~Usable(r.cp, r.open_savers)
    THEN Except(h, r, Exc("OperationalError", "checkpointer"))
    ELSE
    LET r0 == Consume(h, <<NodeStartEvent("chatbot")>>, r)
        all == AllMessages(r.state)
        windowed_messages == ChatbotWindow(all.value)
        run == r.runs + 1
    IN IF all.exc # NoExc THEN Except(h, r0, all.exc)
       ELSE IF windowed_messages = <<>>
       THEN Except(h, r0, Exc("IndexError", "windowed_messages[-1]"))
       ELSE
       LET r1 == [r0 EXCEPT !.runs = run, !.calls = Append(@, windowed_messages)]
           reply == AIMessage(Len(r.state) + 1, <<"reply">>, tc)
           st == AddMessages(r.state, <<reply>>)
       IN IF fails
          THEN Except(h, Consume(h, BrokenRunEvents(ChatModelName, {}, run, nch), r1),
                      Exc("ModelError", "ainvoke"))
          ELSE
          LET r2 == Consume(h,
                       ModelRunEvents(ChatModelName, {}, run, nch,
                           Output(UsageMetadata(usage), ResponseMetadata(usage), tc))
                       \o <<NodeWriteEvent>>, r1)
          IN IF r2.caught # NoExc
             THEN Except(h, IF persisted THEN WriteCheckpoint(r2, st) ELSE r2, r2.caught)
             ELSE [WriteCheckpoint(r2, st) EXCEPT !.pc = AfterChatbot(st)]

Chatbot(h) ==
    /\ pc[h] = "chatbot"
    /\ \E nch \in 0..MaxChunks, usage \in UsageKinds, tc \in ToolCallCounts,
          fails \in BOOLEAN, persisted \in BOOLEAN :
          /\ (tc > 0 => tool_node)
          /\ (fails => usage = "none" /\ tc = 0)
          /\ (persisted => usage = "no_model_name")
          /\ (usage = "no_model_name" => tc = 0)
          /\ Apply(h, ChatbotStep(h, Cur(h), nch, usage, tc, fails, persisted))

\* ToolNode: one ToolMessage per requested call, then back to chatbot.
RECURSIVE ToolResults(_, _)
ToolResults(first_id, n) ==
    IF n = 0 THEN <<>> ELSE <<ToolMessage(first_id)>> \o ToolResults(first_id + 1, n - 1)
RECURSIVE ToolRunEvents(_)
ToolRunEvents(n) == IF n = 0 THEN <<>> ELSE ToolEvents(n) \o ToolRunEvents(n - 1)

ToolsStep(h, r) ==
    IF OutOfSteps(GraphStep("tools", r.rounds))
    THEN Except(h, r, Exc("GraphRecursionError", "recursion_limit"))
    ELSE IF ~Usable(r.cp, r.open_savers)
    THEN Except(h, r, Exc("OperationalError", "checkpointer"))
    ELSE LET n == Last(r.state).tool_calls
             evs == <<NodeStartEvent("tools")>> \o ToolRunEvents(n) \o <<NodeWriteEvent>>
             r1 == Consume(h, evs, [r EXCEPT !.rounds = @ + 1])
             st == AddMessages(r.state, ToolResults(Len(r.state) + 1, n))
         IN [WriteCheckpoint(r1, st) EXCEPT !.pc = "chatbot"]

Tools(h) ==
    /\ pc[h] = "tools"
    /\ Apply(h, ToolsStep(h, Cur(h)))

\* ------------------------------------------------------------ the epilogue
TurnDone(h) == IF h = "ws" THEN "recv" ELSE "done"

\* session.merge(conv); commit(): the local object overwrites the stored row.
Merge(r, c) == [r EXCEPT !.conv = c, !.convs = [r.convs EXCEPT ![c.id] = c]]

\* Lines 119-122 / 238-241.  The single-shot handler has left `async with`
\* by then, which closed its saver.
EpilogueStep(h, r, dbfails, rs) ==
    LET r0 == IF h = "sse" THEN [r EXCEPT !.open_savers = @ \ {r.cp}] ELSE r
        now == r.clock + 1
        r1 == [r0 EXCEPT !.clock = now, !.conv = [r.conv EXCEPT !.last_message_at = now]]
    IN IF dbfails THEN Except(h, r1, Exc("DBError", "commit"))
       ELSE [Merge(r1, r1.conv) EXCEPT
                !.message = [@ EXCEPT !.require_summarization = rs],
                !.pc = IF rs THEN "summarize" ELSE TurnDone(h)]

Epilogue(h) ==
    /\ pc[h] = "epilogue"
    /\ \E dbfails \in BOOLEAN, rs \in BOOLEAN :
          /\ (dbfails => ~rs)
          /\ Apply(h, EpilogueStep(h, Cur(h), dbfails, rs))

\* Lines 124-155 / 243-272: aget_state goes through agent.checkpointer as it
\* is now.  raw = <<>> stands for a summarizer that raises.
SummarizeStep(h, r, raw) ==
    IF ~Usable(r.agent_checkpointer, r.open_savers)
    THEN Except(h, r, Exc("OperationalError", "aget_state"))
    ELSE LET msgs == r.checkpoint[Thread(r)]
             windowed_messages == SummaryWindow(msgs)
             title == Strip(raw, Quote)
             info == Frame("info", 0, 0, IF h = "ws" THEN Thread(r) ELSE None, title)
         IN IF raw = <<>> THEN Except(h, r, Exc("SummarizerError", "smry_chain"))
            ELSE [Merge(r, [r.conv EXCEPT !.title = title]) EXCEPT
                     !.out = Append(r.out, info), !.pc = TurnDone(h)]

Summarize(h) ==
    /\ pc[h] = "summarize"
    /\ \E raw \in TitleRaws \cup {<<>>} : Apply(h, SummarizeStep(h, Cur(h), raw))

Next ==
    \/ WsReceive
    \/ WsDisconnect
    \/ SseRequest
    \/ \E h \in Handlers :
          \/ InputGuard(h)
          \/ Chatbot(h)
          \/ Tools(h)
          \/ Epilogue(h)
          \/ Summarize(h)

Spec == Init /\ [][Next]_vars

\* ------------------------------------------------- the trimmer on its own
\* SpecTrim applies the two trimming calls of the program to drawn sequences,
\* under every budget create_agent() can compute from a context length up to
\* ContextLength and a model whose max_tokens is unset (-1), 0 or 2.
TrimTypes == {"human", "ai", "tool", "system"}
TrimShapes == {Msg(0, t, <<"m">>, {}, 0, k) : t \in TrimTypes, k \in {1, 2}}
TrimInputs == UNION {[1..n -> TrimShapes] : n \in 0..MaxTrimLen}
TrimBudgets ==
    {MaxInputTokens(cl, mt) : cl \in 0..ContextLength, mt \in {-1, 0, 2}}

InitTrim ==
    /\ hazard_classifier = FALSE
    /\ tool_node = FALSE
    /\ token_counter \in {"exact", "len"}
    /\ max_input_tokens \in TrimBudgets
    /\ InitProgram
    /\ tS \in TrimInputs
    /\ tOut = <<>>
    /\ tCall = "none"

\* agent.py lines 119-124 on tS.
TrimChatbot ==
    /\ tCall = "none"
    /\ tOut' = ChatbotWindow(tS)
    /\ tCall' = "chatbot"
    /\ UNCHANGED <<cfgvars, shared, local, tS>>

\* chat.py lines 132-137 / 250-255 on tS.
TrimSummary ==
    /\ tCall = "none"
    /\ tOut' = SummaryWindow(tS)
    /\ tCall' = "summary"
    /\ UNCHANGED <<cfgvars, shared, local, tS>>

NextTrim == TrimChatbot \/ TrimSummary

SpecTrim == InitTrim /\ [][NextTrim]_vars

\* ------------------------------------------------ the title on its own
\* SpecTitle applies the stripping of lines 142 / 260 to every raw title of
\* up to MaxTitleLen characters.
TitleChars == {Quote, "H", "W"}
RawTitles == UNION {[1..n -> TitleChars] : n \in 0..MaxTitleLen}

InitTitle ==
    /\ hazard_classifier = FALSE
    /\ tool_node = FALSE
    /\ token_counter = "len"
    /\ max_input_tokens = MaxInputTokens(ContextLength, -1)
    /\ InitProgram
    /\ tS \in RawTitles
    /\ tOut = <<>>
    /\ tCall = "none"

\* title = title_raw.strip('"')
TitleStrip ==
    /\ tCall = "none"
    /\ tOut' = Strip(tS, Quote)
    /\ tCall' = "strip"
    /\ UNCHANGED <<cfgvars, shared, local, tS>>

NextTitle == TitleStrip

SpecTitle == InitTitle /\ [][NextTitle]_vars

\* ------------------------------------------------------------- properties
\* Frames of a batch by kind and run id; events of a batch that pass the
\* handler's two filters.
RunFrames == {"start", "chunk", "end"}
Indices(seq, kind, run) ==
    {i \in 1..Len(seq) : seq[i].kind = kind /\ seq[i].id = run}
RunIdsOf(seq) == {seq[i].id : i \in {j \in 1..Len(seq) : seq[j].kind \in RunFrames}}
ChunkFramesOf(seq, run) ==
    LET Is(f) == f.kind = "chunk" /\ f.id = run
        sel == SelectSeq(seq, Is)
    IN [i \in 1..Len(sel) |-> sel[i].content[1]]
ChunkEventsOf(evs, run) ==
    LET Is(e) == /\ e.event = "on_chat_model_stream"
                 /\ e.run_id = run
                 /\ ~StartsWithUnderscore(e.name)
                 /\ "internal" \notin e.tags
        sel == SelectSeq(evs, Is)
    IN [i \in 1..Len(sel) |-> sel[i].chunk]

BatchOrdered(h) ==
    \A run \in RunIdsOf(out[h]) :
       /\ Cardinality(Indices(out[h], "start", run)) <= 1
       /\ Cardinality(Indices(out[h], "end", run)) <= 1
       /\ \A i \in Indices(out[h], "start", run), j \in Indices(out[h], "chunk", run) : i < j
       /\ \A j \in Indices(out[h], "chunk", run), k \in Indices(out[h], "end", run) : j < k
       /\ \A i \in Indices(out[h], "start", run), k \in Indices(out[h], "end", run) : i < k
       /\ ChunkFramesOf(out[h], run) = ChunkEventsOf(received[h], run)

\* A step that sends frames uses run ids the turn has not used before, so a
\* run's frames all lie in the batch of one step.
RunIdsFresh(h) ==
    (out'[h] # out[h] \/ runs'[h] # runs[h]) =>
        \A run \in RunIdsOf(out'[h]) : runs[h] < run /\ run <= runs'[h]

\* C1: on either transport, the frames of a turn carry for every run id at
\* most one Start and at most one End, the Start before every Chunk, every
\* Chunk before the End, and the Chunks in the order their events were
\* received, none twice.
C1_FrameOrder ==
    /\ [](\A h \in Handlers : BatchOrdered(h))
    /\ [][\A h \in Handlers : RunIdsFresh(h)]_vars

\* The generation after a tool round on the single-shot stream: its start,
\* its chunks and its end, under a run id of its own.
C1_Witness ==
    /\ rounds["sse"] = 1
    /\ runs["sse"] >= 2
    /\ Cardinality(Indices(out["sse"], "start", runs["sse"])) = 1
    /\ Cardinality(Indices(out["sse"], "chunk", runs["sse"])) = MaxChunks
    /\ Cardinality(Indices(out["sse"], "end", runs["sse"])) = 1

\* The handler's current message names a conversation someone else owns.
Unauthorized(h) ==
    /\ message[h] # NoMessage
    /\ message[h].conversation \in ConvIds
    /\ convs[message[h].conversation].owner # userid

KindsOf(seq) == {seq[i].kind : i \in 1..Len(seq)}

\* C2: for a message whose requester is not the conversation's owner, on
\* either transport and at any position on the channel, the model is never
\* invoked, no Start, Chunk, End or Info frame is sent, and the conversation
\* record and transcript are left as they were.
C2_UnauthorizedDoesNothing ==
    /\ [](\A h \in Handlers : Unauthorized(h) =>
             /\ pc[h] \in {"recv", "done", "closed"}
             /\ state[h] = <<>>
             /\ calls[h] = <<>>
             /\ KindsOf(out[h]) \cap {"start", "chunk", "end", "info"} = {}
             /\ conv[h] = convs[message[h].conversation])
    /\ [][\A h \in Handlers : (Unauthorized(h)' /\ message'[h] # message[h]) =>
             /\ convs' = convs
             /\ checkpoint' = checkpoint
             /\ input_tokens' = input_tokens
             /\ output_tokens' = output_tokens]_vars

\* The second message of one persistent channel names someone else's
\* conversation and has been refused.
C2_Witness ==
    /\ pc["sse"] = "idle"
    /\ message["ws"].id = 2
    /\ Unauthorized("ws")
    /\ caught["ws"] = Exc("WebSocketException", "3403")

\* C3: on the persistent channel, a message whose requester is not the
\* conversation's owner ends the channel: once the authorization failure has
\* been raised the channel is closed and takes no further message.
C3_UnauthorizedClosesChannel ==
    caught["ws"].type = "WebSocketException" => pc["ws"] = "closed"

ErrorFrames(seq) == {i \in 1..Len(seq) : seq[i].kind = "error"}

\* C4: a turn-level error never ends the serving path abnormally.  The
\* persistent channel is back at its receive after the error, and closes only
\* from there, by a disconnect that handles no message; the single-shot
\* stream ends with exactly one error frame, its last frame, and no error
\* frame is sent otherwise.
C4_ErrorsKeepServing ==
    /\ [](/\ caught["ws"].type \notin {NoExc.type, "WebSocketException"} =>
               pc["ws"] \in {"recv", "closed"}
          /\ ErrorFrames(out["ws"]) = {}
          /\ caught["sse"] # NoExc =>
               /\ pc["sse"] = "done"
               /\ ErrorFrames(out["sse"]) = {Len(out["sse"])}
               /\ Last(out["sse"]).content = <<caught["sse"].type>>
          /\ caught["sse"] = NoExc => ErrorFrames(out["sse"]) = {})
    /\ [][(pc'["ws"] = "closed" /\ pc["ws"] # "closed") =>
             /\ pc["ws"] = "recv"
             /\ caught'["ws"] = caught["ws"]
             /\ nmsgs' = nmsgs]_vars

\* The first turn of the persistent channel died in generation, and the second
\* message on the same channel has its reply.
C4_Witness ==
    /\ pc["sse"] = "idle"
    /\ message["ws"].id = 2
    /\ pc["ws"] = "epilogue"
    /\ Len(state["ws"]) = 3
    /\ state["ws"][1].type = "human"
    /\ state["ws"][2].type = "human"
    /\ state["ws"][3].type = "ai"
    /\ "end" \in KindsOf(out["ws"])

\* C5: a failure while incrementing the usage counters is swallowed: the
\* KeyError of a model-end event without a model name never reaches the
\* handler's except clause, so it never aborts the turn.
C5_MetricsFailureSwallowed ==
    \A h \in Handlers : caught[h].type # "KeyError"

\* C6: an empty window is a handled state of the Generate step: chatbot()
\* never ends in an unhandled error on it.
C6_EmptyWindowHandled ==
    \A h \in Handlers : caught[h] # Exc("IndexError", "windowed_messages[-1]")

\* The trimming call SpecTrim has made: its counter and its budget.
TrimCounter == IF tCall = "chatbot" THEN token_counter ELSE "len"
TrimBudget == IF tCall = "chatbot" THEN max_input_tokens ELSE SummaryMaxTokens
IsSuffix(w, msgs) == Len(w) <= Len(msgs) /\ w = LastK(msgs, Len(w))
UserSuffixFits(msgs, counter, budget) ==
    \E k \in 1..Len(msgs) :
       /\ LastK(msgs, k)[1].type = "human"
       /\ Cost(counter, LastK(msgs, k)) <= budget

\* C7 as stated: for every sequence, every budget and either counter, the
\* window is a suffix of the sequence, costs at most the budget, starts on a
\* user message when not empty, and is empty when no suffix starting on a user
\* message fits.
C7_WindowWithinBudget ==
    tCall # "none" =>
       /\ IsSuffix(tOut, tS)
       /\ Cost(TrimCounter, tOut) <= TrimBudget
       /\ tOut # <<>> => tOut[1].type = "human"
       /\ ~UserSuffixFits(tS, TrimCounter, TrimBudget) => tOut = <<>>

\* C7 as it holds: the cost is at most the budget when the budget is not
\* negative; under a negative budget the window is empty, and its cost of
\* zero is above the budget.
C7_WindowWithinNonNegativeBudget ==
    tCall # "none" =>
       /\ IsSuffix(tOut, tS)
       /\ TrimBudget >= 0 => Cost(TrimCounter, tOut) <= TrimBudget
       /\ TrimBudget < 0 => tOut = <<>>
       /\ tOut # <<>> => tOut[1].type = "human"
       /\ ~UserSuffixFits(tS, TrimCounter, TrimBudget) => tOut = <<>>

\* The exact counter cuts a full-length sequence by budget and then by role:
\* the last two messages fit, the window is the last one.
C7_Witness ==
    /\ tCall = "chatbot"
    /\ token_counter = "exact"
    /\ Len(tS) = MaxTrimLen
    /\ Len(tOut) = 1
    /\ Cost("exact", tS) > max_input_tokens
    /\ Cost("exact", LastK(tS, 2)) <= max_input_tokens

\* The transcript of the turn ends on a user message carrying a hazard tag.
FlaggedLast(h) ==
    /\ state[h] # <<>>
    /\ Last(state[h]).type = "human"
    /\ "hazard" \in DictKeys(Last(state[h]).additional_kwargs)

\* What ends the generation of a turn with a safe verdict as well.
SafeTurnFailures == {"ModelError", "KeyError", "OperationalError", "IndexError"}

\* C8: the InputGuard informs and never blocks: a turn whose last message was
\* flagged unsafe with a category goes on to Generate, and leaves Generate
\* without a reply only by a failure that stops a turn with a safe verdict too.
C8_GuardNeverBlocks ==
    \A h \in Handlers :
       (FlaggedLast(h) /\ pc[h] # "chatbot") => caught[h].type \in SafeTurnFailures

\* The step of handler h through input_guard, and whether its verdict tags.
GuardStepOf(h) == pc[h] = "input_guard" /\ pc'[h] = "chatbot"
Tags(v) == hazard_classifier /\ v.flag = "unsafe" /\ v.category # None
OtherKeys(d) == {p \in d : p[1] # "hazard"}

\* C9: when a classifier is configured and returns unsafe with a category,
\* after InputGuard the last message's metadata has hazard = that category,
\* its content and other metadata keys are as before, and no other message
\* has changed; with a safe verdict, a null category or no classifier the
\* transcript is as before.  The persisted transcript is the same one.
C9_HazardRoundTrip ==
    [][\A h \in Handlers : GuardStepOf(h) =>
          LET old == state[h]
              new == state'[h]
              n == Len(old)
              v == verdict'[h]
          IN /\ Len(new) = n
             /\ \A i \in 1..(n - 1) : new[i] = old[i]
             /\ IF Tags(v)
                THEN /\ DictGet(new[n].additional_kwargs, "hazard") = v.category
                     /\ OtherKeys(new[n].additional_kwargs) =
                           OtherKeys(old[n].additional_kwargs)
                     /\ [new[n] EXCEPT !.additional_kwargs = {}] =
                           [old[n] EXCEPT !.additional_kwargs = {}]
                ELSE new[n] = old[n]
             /\ checkpoint'[message[h].conversation] = new]_vars

\* The second message of a channel is flagged unsafe with a category: it
\* carries the tag, the first message of the transcript does not.
C9_Witness ==
    /\ message["ws"].id = 2
    /\ pc["ws"] = "chatbot"
    /\ verdict["ws"] = [flag |-> "unsafe", category |-> "S1"]
    /\ Len(state["ws"]) >= 2
    /\ DictGet(Last(state["ws"]).additional_kwargs, "hazard") = "S1"
    /\ state["ws"][1].additional_kwargs = {}

HintFree(msgs) == \A i \in 1..Len(msgs) : ~IsHint(msgs[i])

\* C10: the hint is ephemeral: no persisted transcript and no graph state
\* holds a hint message, and a window passed to the model holds a hint only
\* as its last message, right after a message that carries a hazard tag.
C10_HintEphemeral ==
    /\ \A c \in ConvIds : HintFree(checkpoint[c])
    /\ \A h \in Handlers :
          /\ HintFree(state[h])
          /\ \A k \in 1..Len(calls[h]) :
                LET w == calls[h][k]
                IN \A i \in 1..Len(w) :
                      IsHint(w[i]) =>
                         /\ i = Len(w)
                         /\ i > 1
                         /\ "hazard" \in DictKeys(w[i - 1].additional_kwargs)

\* After a first turn whose reply was persisted, the second message of the
\* channel is tagged, chatbot() has synthesized its hint, and the transcript
\* holds the tagged message and no hint.
C10_Witness ==
    /\ message["ws"].id = 2
    /\ caught["ws"] = Exc("TypeError", "list + SystemMessage")
    /\ Len(checkpoint["c1"]) >= 3
    /\ HintMessage(checkpoint["c1"]) # <<>>

\* The handler is inside the graph's Generate/ToolLoop cycle.
InLoop(h) == pc[h] \in {"chatbot", "tools"}

InTurn(h) == pc[h] \in {"input_guard", "chatbot", "tools", "epilogue", "summarize"}

\* C12: at no point are two turns for the same conversation id executing
\* concurrently: a second turn for a conversation starts only after the first
\* has finished with that conversation's checkpoint.
C12_ConversationExclusive ==
    \A h1, h2 \in Handlers :
       (h1 # h2 /\ InTurn(h1) /\ InTurn(h2)) =>
          message[h1].conversation # message[h2].conversation

\* The stripping the title is said to get: one leading and one trailing quote
\* go when the string starts and ends with a quote, nothing else changes.
StripOnePair(s) ==
    IF Len(s) >= 2 /\ s[1] = Quote /\ s[Len(s)] = Quote
    THEN SubSeq(s, 2, Len(s) - 1)
    ELSE s

\* C13: for every raw summarizer output the stored title is the raw string
\* without one surrounding pair of quotes when it starts and ends with a
\* quote, and the raw string otherwise; further quotes are kept.
C13_TitleStripsOnePair ==
    tCall = "strip" => tOut = StripOnePair(tS)

InfoFrames(seq) == {i \in 1..Len(seq) : seq[i].kind = "info"}

\* C14: for a turn that reached End, the last-activity update comes after the
\* turn's frames; when the message asked for summarization and the summarizer
\* answered, the turn ends with the title persisted and exactly one Info frame
\* carrying it, sent after every Start, Chunk and End frame; when it did not
\* ask, no Info frame is sent and the title is as it was.
C14_EpilogueOrder ==
    /\ \A h \in Handlers :
          (pc[h] \in {"epilogue", "summarize"}) =>
             KindsOf(out[h]) \cap {"info"} = {}
    /\ \A h \in Handlers :
          (/\ pc[h] = TurnDone(h)
           /\ message[h].require_summarization
           /\ caught[h].type # "SummarizerError") =>
             /\ Len(out[h]) = 1
             /\ InfoFrames(out[h]) = {1}
             /\ out[h][1].content = conv[h].title
             /\ conv[h].last_message_at > 0
    /\ \A h \in Handlers :
          (/\ pc[h] = TurnDone(h)
           /\ message[h] # NoMessage
           /\ ~message[h].require_summarization) =>
             InfoFrames(out[h]) = {}

\* The turn's summarization side path has failed: the state read or the
\* summarizer call raised.
SidePathFailed(h) == caught[h].at \in {"aget_state", "smry_chain"}

\* C15: a failure in the title-summarization side path is contained: no error
\* frame is sent on either transport, the last-activity update of the turn
\* stands, and the handler is where a turn without failure ends.
C15_SummaryFailureContained ==
    \A h \in Handlers :
       SidePathFailed(h) =>
          /\ ErrorFrames(out[h]) = {}
          /\ pc[h] \in {TurnDone(h), "closed"}
          /\ conv[h].last_message_at > 0

\* The handler takes a step of the graph: the only steps that deliver events.
GraphStepOf(h) == pc[h] \in {"input_guard", "chatbot", "tools"} /\ pc'[h] # pc[h]

\* A model-end event that survives both filters and carries usage metadata.
ReportsUsage(e) ==
    /\ e.event = "on_chat_model_end"
    /\ ~StartsWithUnderscore(e.name)
    /\ "internal" \notin e.tags
    /\ e.output.usage_metadata # {}

\* What the events of a batch report under `key`, for one label and in all.
RECURSIVE ReportedAt(_, _, _)
ReportedAt(evs, label, key) ==
    IF evs = <<>> THEN 0
    ELSE LET e == Head(evs)
             at == <<userid, DictGet(e.output.response_metadata, "model_name")>>
         IN (IF ReportsUsage(e) /\ at = label
             THEN DictGet(e.output.usage_metadata, key) ELSE 0)
            + ReportedAt(Tail(evs), label, key)
RECURSIVE Reported(_, _)
Reported(evs, key) ==
    IF evs = <<>> THEN 0
    ELSE (IF ReportsUsage(Head(evs))
          THEN DictGet(Head(evs).output.usage_metadata, key) ELSE 0)
         + Reported(Tail(evs), key)
RECURSIVE Total(_, _)
Total(counter, labels) ==
    IF labels = {} THEN 0
    ELSE LET l == CHOOSE x \in labels : TRUE
         IN counter[l] + Total(counter, labels \ {l})
Labels == Users \X ModelNames

\* C16: every surviving model-end event with usage metadata adds exactly the
\* reported input and output tokens to the counters of (requesting user, model
\* name) and to no other; events without usage metadata and filtered events
\* add nothing; nothing but a graph step's events moves a counter.
C16_UsageAccounting ==
    [][/\ \A h \in Handlers : GraphStepOf(h) =>
             /\ \A l \in Labels :
                   /\ input_tokens'[l] - input_tokens[l] =
                         ReportedAt(received'[h], l, "input_tokens")
                   /\ output_tokens'[l] - output_tokens[l] =
                         ReportedAt(received'[h], l, "output_tokens")
             /\ Total(input_tokens', Labels) - Total(input_tokens, Labels) =
                   Reported(received'[h], "input_tokens")
             /\ Total(output_tokens', Labels) - Total(output_tokens, Labels) =
                   Reported(received'[h], "output_tokens")
       /\ (\A h \in Handlers : ~GraphStepOf(h)) =>
             /\ input_tokens' = input_tokens
             /\ output_tokens' = output_tokens]_vars

\* The frame images of the raw events: an event whose name starts with "_" or
\* whose tags hold "internal" has none, nor has any event that is not a model
\* start, stream or end.
ModelEventKinds ==
    { <<"on_chat_model_start", "start">>,
      <<"on_chat_model_stream", "chunk">>,
      <<"on_chat_model_end", "end">> }
Surfaced(e) ==
    /\ e.name = <<>> \/ Head(e.name) # "_"
    /\ "internal" \notin e.tags
    /\ e.event \in {k[1] : k \in ModelEventKinds}
ImageOf(h, m, e) ==
    [kind |-> DictGet(ModelEventKinds, e.event),
     parent_id |-> m.id,
     id |-> e.run_id,
     conversation |-> IF h = "ws" THEN m.conversation ELSE None,
     content |-> IF e.event = "on_chat_model_stream" THEN <<e.chunk>> ELSE <<>>]
RECURSIVE Images(_, _, _)
Images(h, m, evs) ==
    IF evs = <<>> THEN <<>>
    ELSE (IF Surfaced(Head(evs)) THEN <<ImageOf(h, m, Head(evs))>> ELSE <<>>)
         \o Images(h, m, Tail(evs))
IsModelFrame(f) == f.kind \in {"start", "chunk", "end"}
ModelFrames(h) == SelectSeq(out[h], IsModelFrame)
Noise(e) == ~Surfaced(e)

\* C17: the start, chunk and end frames a handler sends are exactly the images,
\* in receipt order, of the raw events that are model start, stream or end
\* events, do not start with "_" and are not tagged "internal"; every other
\* raw event yields no frame.
C17_NoiseFiltered ==
    \A h \in Handlers : ModelFrames(h) = Images(h, message[h], received[h])

\* One handler has taken in an internal model run and sent nothing for it;
\* one has taken in a graph event, a hidden event and a surfaced model run and
\* sent the run's frames only.
C17_Witness ==
    /\ \E h \in Handlers :
          /\ \E i \in DOMAIN received[h] :
                /\ "internal" \in received[h][i].tags
                /\ received[h][i].event = "on_chat_model_end"
          /\ out[h] = <<>>
    /\ \E h \in Handlers :
          /\ \E i \in DOMAIN received[h] : StartsWithUnderscore(received[h][i].name)
          /\ \E i \in DOMAIN received[h] :
                /\ received[h][i].event = "on_chain_start"
                /\ Noise(received[h][i])
          /\ Len(ModelFrames(h)) >= 3
          /\ Len(ModelFrames(h)) < Len(received[h])
\* Each transport's translator over a whole sequence of raw events.
RECURSIVE WsTranslate(_, _)
WsTranslate(m, evs) ==
    IF evs = <<>> THEN <<>> ELSE WsFrames(m, Head(evs)) \o WsTranslate(m, Tail(evs))
RECURSIVE SseTranslate(_, _)
SseTranslate(m, evs) ==
    IF evs = <<>> THEN <<>> ELSE SseFrames(m, Head(evs)) \o SseTranslate(m, Tail(evs))
WithoutConversation(frames) ==
    [i \in DOMAIN frames |->
        [kind |-> frames[i].kind, parent_id |-> frames[i].parent_id,
         id |-> frames[i].id, content |-> frames[i].content]]

\* C18: for the same raw events and the same inbound message the two
\* translators give the same start, chunk and end frames, equal in kind,
\* parent id, id and content, the conversation present on the websocket and
\* absent on the single-shot stream; and the same counter increments.
C18_TransportEquivalence ==
    \A h \in Handlers :
        LET ws == WsTranslate(message[h], received[h])
            sse == SseTranslate(message[h], received[h])
        IN /\ WithoutConversation(ws) = WithoutConversation(sse)
           /\ \A i \in DOMAIN ws : ws[i].conversation = message[h].conversation
           /\ \A i \in DOMAIN sse : sse[i].conversation = None
           /\ ModelFrames(h) = IF h = "ws" THEN ws ELSE sse
           /\ \A i \in DOMAIN received[h] :
                 /\ UsageRaises(received[h][i]) = SseUsageRaises(received[h][i])
                 /\ IncCounter(input_tokens, userid, received[h][i], "input_tokens")
                      = SseIncCounter(input_tokens, userid, received[h][i], "input_tokens")
                 /\ IncCounter(output_tokens, userid, received[h][i], "output_tokens")
                      = SseIncCounter(output_tokens, userid, received[h][i], "output_tokens")

\* The single-shot handler has taken in a surfaced model run with chunks whose
\* end reports usage for a named model; the websocket translator gives other
\* frames for the same events and message, equal once the conversation is
\* left out.
C18_Witness ==
    LET ws == WsTranslate(message["sse"], received["sse"])
    IN /\ Len(out["sse"]) >= 3
       /\ out["sse"] = SseTranslate(message["sse"], received["sse"])
       /\ ws # out["sse"]
       /\ WithoutConversation(ws) = WithoutConversation(out["sse"])
       /\ \E i \in DOMAIN received["sse"] :
             /\ SseMetered(received["sse"][i])
             /\ ~SseUsageRaises(received["sse"][i])
             /\ DictGet(received["sse"][i].output.usage_metadata, "input_tokens")
                  # DictGet(received["sse"][i].output.usage_metadata, "output_tokens")
       /\ \E l \in Labels : input_tokens[l] > 0 /\ output_tokens[l] > 0
\* The handler leaves a node of the graph; the turn is cut short there when an
\* exception reaches the handler's except clause.
Leaves(h, node) == pc[h] = node /\ pc'[h] # node
CutShort(h) == caught'[h] # NoExc /\ pc'[h] \in {TurnDone(h), "closed"}
Appended(h) ==
    IF Len(state'[h]) >= Len(state[h]) /\ SubSeq(state'[h], 1, Len(state[h])) = state[h]
    THEN SubSeq(state'[h], Len(state[h]) + 1, Len(state'[h]))
    ELSE <<[type |-> "rewritten"]>>

\* C19: a turn runs input_guard, then chatbot, then tools and chatbot again any
\* number of times, then ends, and takes no other path.  input_guard is
\* entered only by a new inbound message; chatbot appends exactly one model
\* response and goes on to tools exactly when that response asks for a tool
\* and tools are configured, otherwise to the end of the graph; tools appends
\* one tool result per requested call and goes back to chatbot.  An exception
\* ends the turn wherever it is raised.
C19_GraphTransitions ==
    [][\A h \in Handlers :
          /\ pc'[h] = "input_guard" /\ pc[h] # "input_guard" =>
                pc[h] \in {IdlePc(h), TurnDone(h)}
          /\ pc'[h] = "chatbot" /\ pc[h] # "chatbot" => pc[h] \in {"input_guard", "tools"}
          /\ pc'[h] = "tools" /\ pc[h] # "tools" => pc[h] = "chatbot"
          /\ pc'[h] = "epilogue" /\ pc[h] # "epilogue" => pc[h] = "chatbot"
          /\ Leaves(h, "input_guard") => pc'[h] = "chatbot" \/ CutShort(h)
          /\ Leaves(h, "chatbot") =>
                \/ CutShort(h)
                \/ /\ Len(Appended(h)) = 1
                   /\ Appended(h)[1].type = "ai"
                   /\ pc'[h] = IF Appended(h)[1].tool_calls > 0 /\ tool_node
                               THEN "tools" ELSE "epilogue"
          /\ Leaves(h, "tools") =>
                \/ CutShort(h)
                \/ /\ pc'[h] = "chatbot"
                   /\ Len(Appended(h)) = Last(state[h]).tool_calls
                   /\ Len(Appended(h)) > 0
                   /\ \A i \in DOMAIN Appended(h) : Appended(h)[i].type = "tool"]_vars

\* A turn that went through tools once and whose second generation asked for
\* no tool: human, ai with one call, its tool result, ai.
C19_Witness ==
    \E h \in Handlers :
        /\ pc[h] = "epilogue"
        /\ rounds[h] = 1
        /\ Len(state[h]) = 4
        /\ state[h][1].type = "human"
        /\ state[h][2].type = "ai" /\ state[h][2].tool_calls = 1
        /\ state[h][3].type = "tool"
        /\ state[h][4].type = "ai" /\ state[h][4].tool_calls = 0

\* C20: a turn in progress keeps a usable checkpointer throughout: while a
\* handler is inside the graph the checkpointer its graph took is open and is
\* still the shared agent's, when it reads the state for summarization the
\* agent's checkpointer is open, and no turn ends on a closed checkpointer.
C20_CheckpointerUsable ==
    \A h \in Handlers :
        /\ pc[h] \in {"input_guard", "chatbot", "tools"} =>
              /\ Usable(cp[h], open_savers)
              /\ cp[h] = agent_checkpointer
        /\ pc[h] = "summarize" => Usable(agent_checkpointer, open_savers)
        /\ caught[h].type # "OperationalError"

=============================================================================
